---- MODULE Spec2Model ----
(***************************************************************************)
(* A model of csmith/jewelcase: the Process pipeline (jewelcase.go), the   *)
(* file-level entry point ProcessFile with loadImage / saveImage, and the  *)
(* recursive directory mode of cmd/jewelcase/main.go.                      *)
(*                                                                         *)
(* Five specifications share the module:                                   *)
(*   Spec      Process, stage by stage, on the dimensions of the buffers   *)
(*   SpecPixel Process on the value of one pixel of the 750x750 buffer     *)
(*   SpecFile  ProcessFile and processDirectory over a small file tree     *)
(*   SpecWalk  SpecFile with weak fairness on the steps of the walk        *)
(*   SpecConc  several Process calls interleaved over the shared frame     *)
(***************************************************************************)
EXTENDS Integers, Sequences, FiniteSets, TLC

VARIABLES
    \* ---- Spec: one Process call, buffer dimensions and control ----
    pc,         \* the statement of Process the call is at
    albumArt,   \* the input image: [w, h]
    opts,       \* the Options value of the call
    scaled,     \* scaleAndCrop's intermediate buffer: [w, h]
    crop,       \* scaleAndCrop's crop origin: [x, y]
    output,     \* the buffer threaded through the stages: [w, h, covered]
    finalPos,   \* [x, y]: finalX, finalY
    result,     \* the returned image ([w, h]) or NoImage
    err,        \* the returned error
    ran,        \* the stages that have executed, in order
    \* ---- SpecPixel: one pixel of the 750x750 buffer through Process ----
    ppc,        \* the statement of Process the call is at
    popts,      \* the Options value of the call
    pos,        \* the pixel's position in the buffer: [x, y]
    px,         \* the pixel's value in the current buffer: [r, g, b, a]
    edgeIn,     \* the pixel handed to applyEdgeSoftening (NoPixel: not run)
    edgeOut,    \* the pixel applyEdgeSoftening returned (NoPixel: not run)
    framePx,    \* the frame's pixel at the place the pixel is drawn
    canvasPx,   \* the result's pixel at that place (NoPixel: not drawn yet)
    \* ---- SpecFile: ProcessFile and processDirectory over a file tree ----
    files,      \* path -> content of the file at that path
    wpc,        \* "idle", or where processDirectory's walk is
    idx,        \* the entry of Tree the walk visits next
    wforce,     \* opts.Force of the running walk
    reports,    \* the walk's reports so far: <<[path, kind], ...>>
    calls,      \* path -> ProcessFile calls the running walk made on it
    runs,       \* program runs started so far
    lastCall,   \* the most recent ProcessFile call and its outcome
    framedOnce, \* paths a non-forced in-place ProcessFile has succeeded on
    tainted,    \* paths written by a forced call or as another input's output
    \* ---- SpecConc: concurrent Process calls sharing the frame ----
    heap,       \* image object -> its pixels; object FrameObj is the frame
    frameInit,  \* the frame's pixels when init() returned
    cpc,        \* call -> the statement of Process it is at
    cart,       \* call -> the pixel of its processed album art
    cat,        \* call -> the cell its art is drawn at (finalX, finalY)
    cref        \* call -> the object its result variable refers to

procVars == <<pc, albumArt, opts, scaled, crop, output, finalPos, result, err, ran>>
pixVars == <<ppc, popts, pos, px, edgeIn, edgeOut, framePx, canvasPx>>

fileVars == <<files, wpc, idx, wforce, reports, calls, runs, lastCall, framedOnce, tainted>>

concVars == <<heap, frameInit, cpc, cart, cat, cref>>

vars == <<procVars, pixVars, fileVars, concVars>>

(***************************************************************************)
(* Program constants                                                       *)
(***************************************************************************)
targetWidth == 750
targetHeight == 750
frameOffsetX == 98
frameOffsetY == 13
\* frame.Bounds() of the embedded frame.jpg
FrameW == 884
FrameH == 777
OffsetRangeX == 17
OffsetHalfX == 8
OffsetRangeY == 11
OffsetHalfY == 5

(***************************************************************************)
(* Bounds of the model                                                     *)
(***************************************************************************)
\* rand.Float64() is drawn from the grid {0/UDen, ..., (UDen-1)/UDen}
UDen == 34

NoImage == [w |-> 0, h |-> 0]
NoPoint == [x |-> 0, y |-> 0]
NoBuffer == [w |-> 0, h |-> 0, covered |-> FALSE]

\* Widths and heights of the input images: tiny, smaller than the target,
\* the target itself, between target and frame, the frame, larger; 91 and
\* 182 are widths w with float64(w) * (750.0 / float64(w)) < 750.
InputDims == {1, 91, 182, 500, 750, 777, 884, 1000}

OptionSet ==
    [ColourCorrection : BOOLEAN, RoundedCorners : BOOLEAN, EdgeSoftening : BOOLEAN,
     RandomOffset : BOOLEAN, RandomRotation : BOOLEAN, Reflection : BOOLEAN,
     Force : BOOLEAN]

(***************************************************************************)
(* float64 arithmetic of scaleAndCrop, exactly, on integers.               *)
(*                                                                         *)
(* fl(a / b) for 1 <= a < 1024 and 1 <= b <= 4096 is (a*2^e + c)/(b*2^e),  *)
(* where e = 43 + t puts the quotient's 53-bit significand in              *)
(* [2^52, 2^53) and c is the round-to-nearest-even error times b*2^e.      *)
(***************************************************************************)
RECURSIVE Pow2(_)
Pow2(n) == IF n <= 0 THEN 1 ELSE 2 * Pow2(n - 1)

RECURSIVE PowMod2(_, _)
PowMod2(e, m) == IF e = 0 THEN 1 % m ELSE (2 * PowMod2(e - 1, m)) % m

RECURSIVE ShiftFrom(_, _, _)
ShiftFrom(a, b, t) == IF a * Pow2(t) >= 512 * b THEN t ELSE ShiftFrom(a, b, t + 1)

RECURSIVE Log2From(_, _)
Log2From(q, j) == IF Pow2(j + 1) > q THEN j ELSE Log2From(q, j + 1)

\* float64(a) / float64(b)
FloatDiv(a, b) ==
    LET t == ShiftFrom(a, b, 0)
        e == 43 + t
        r == ((a % b) * PowMod2(e, b)) % b
        r2 == ((a % (2 * b)) * PowMod2(e, 2 * b)) % (2 * b)
        odd == (r2 - r) \div b
        up == 2 * r > b \/ (2 * r = b /\ odd = 1)
    IN [num |-> a, den |-> b, t |-> t,
        c |-> IF r = 0 THEN 0 ELSE IF up THEN b - r ELSE 0 - r]

\* max of two float64 quotients (rounding is monotone, so the exact
\* quotients decide)
FloatMax(p, q) == IF p.num * q.den >= q.num * p.den THEN p ELSE q

\* int(float64(n) * q): the product rounded to float64, then truncated
IntOfProduct(n, q) ==
    LET Q == (n * q.num) \div q.den
        R == (n * q.num) % q.den
        j == Log2From(Q, 0)
        p == IF Q = Pow2(j) THEN 1 ELSE 0
        lim == q.den * Pow2(j + q.t - 8 - p)
    IN IF R > 0 \/ q.c >= 0 THEN Q
       ELSE IF 4 * n * (0 - q.c) <= lim THEN Q ELSE Q - 1

\* Go's integer division truncates toward zero
GoDiv(a, b) == IF a >= 0 THEN a \div b ELSE 0 - ((0 - a) \div b)

(***************************************************************************)
(* Process, on dimensions                                                  *)
(***************************************************************************)
\* if !opts.Force
GuardAppliesAlways(o) == TRUE
GuardApplies(o) == ~o.Force

\* frame.Bounds()
frameBounds == [w |-> FrameW, h |-> FrameH]

\* bounds.Dx() == frameBounds.Dx() && bounds.Dy() == frameBounds.Dy()
SameSizeAsFrame(img) == img.w = frameBounds.w /\ img.h = frameBounds.h

\* result := image.NewRGBA(frame.Bounds())
resultBoundsOfArt == [w |-> targetWidth, h |-> targetHeight]
resultBounds == frameBounds

\* scaleAndCrop: the scaled buffer's size
ScaledSize(img) ==
    LET scale == FloatMax(FloatDiv(targetWidth, img.w), FloatDiv(targetHeight, img.h))
    IN [w |-> IntOfProduct(img.w, scale), h |-> IntOfProduct(img.h, scale)]

CropOrigin(s) ==
    [x |-> GoDiv(s.w - targetWidth, 2), y |-> GoDiv(s.h - targetHeight, 2)]

\* draw.Draw(output, output.Bounds(), scaled, {cropX, cropY}, draw.Src) clips
\* to the source: the 750x750 output is covered only where the crop
\* rectangle lies inside scaled
CropInside(s, c) ==
    /\ c.x >= 0 /\ c.y >= 0
    /\ c.x + targetWidth <= s.w /\ c.y + targetHeight <= s.h

\* every effect stage allocates image.NewRGBA(img.Bounds())
SameBounds(img) == [w |-> img.w, h |-> img.h, covered |-> img.covered]

\* int(rand.Float64()*17) - 8 and int(rand.Float64()*11) - 5, for the draw k/UDen
RandomOffsetXWide(k) == ((k * (OffsetRangeX + 1)) \div UDen) - OffsetHalfX
RandomOffsetX(k) == ((k * OffsetRangeX) \div UDen) - OffsetHalfX
RandomOffsetY(k) == ((k * OffsetRangeY) \div UDen) - OffsetHalfY

Draws == 0 .. (UDen - 1)

\* The other specifications' variables rest while Process runs on dimensions
ProcOnly == UNCHANGED <<pixVars, fileVars, concVars>>

InitProcess ==
    /\ pc = "guard"
    /\ albumArt \in [w : InputDims, h : InputDims]
    /\ opts \in OptionSet
    /\ scaled = NoImage
    /\ crop = NoPoint
    /\ output = NoBuffer
    /\ finalPos = NoPoint
    /\ result = NoImage
    /\ err = "pending"
    /\ ran = <<>>

\* lines 75-81
Guard ==
    /\ pc = "guard"
    /\ IF GuardApplies(opts) /\ SameSizeAsFrame(albumArt)
       THEN /\ pc' = "done"
            /\ err' = "ErrAlreadyProcessed"
       ELSE /\ pc' = "scaleAndCrop"
            /\ err' = err
    /\ UNCHANGED <<albumArt, opts, scaled, crop, output, finalPos, result, ran>>
    /\ ProcOnly

\* line 83, lines 170-188
RunScaleAndCrop ==
    /\ pc = "scaleAndCrop"
    /\ scaled' = ScaledSize(albumArt)
    /\ crop' = CropOrigin(scaled')
    /\ output' = [w |-> targetWidth, h |-> targetHeight,
                  covered |-> CropInside(scaled', crop')]
    /\ ran' = Append(ran, "scaleAndCrop")
    /\ pc' = "applyColourCorrection"
    /\ UNCHANGED <<albumArt, opts, finalPos, result, err>>
    /\ ProcOnly

Stage(name, enabled, next) ==
    /\ pc = name
    /\ IF enabled
       THEN /\ output' = SameBounds(output)
            /\ ran' = Append(ran, name)
       ELSE UNCHANGED <<output, ran>>
    /\ pc' = next
    /\ UNCHANGED <<albumArt, opts, scaled, crop, finalPos, result, err>>
    /\ ProcOnly

\* lines 85-99
RunColourCorrection ==
    Stage("applyColourCorrection", opts.ColourCorrection, "applyEdgeSoftening")
RunEdgeSoftening ==
    Stage("applyEdgeSoftening", opts.EdgeSoftening, "applyRoundedCorners")
RunRoundedCorners ==
    Stage("applyRoundedCorners", opts.RoundedCorners, "applyReflection")
RunReflection ==
    Stage("applyReflection", opts.Reflection, "applyRotation")
RunRotation ==
    Stage("applyRotation", opts.RandomRotation, "composite")

\* lines 101-111
Composite ==
    /\ pc = "composite"
    /\ \E kx \in Draws, ky \in Draws :
          finalPos' = IF opts.RandomOffset
                      THEN [x |-> frameOffsetX + RandomOffsetX(kx),
                            y |-> frameOffsetY + RandomOffsetY(ky)]
                      ELSE [x |-> frameOffsetX, y |-> frameOffsetY]
    /\ result' = resultBounds
    /\ err' = "nil"
    /\ ran' = Append(ran, "composite")
    /\ pc' = "done"
    /\ UNCHANGED <<albumArt, opts, scaled, crop, output>>
    /\ ProcOnly

NextProcess ==
    \/ Guard
    \/ RunScaleAndCrop
    \/ RunColourCorrection
    \/ RunEdgeSoftening
    \/ RunRoundedCorners
    \/ RunReflection
    \/ RunRotation
    \/ Composite

(***************************************************************************)
(* Claims about Process (specification Spec)                               *)
(***************************************************************************)
FrameSize == [w |-> FrameW, h |-> FrameH]

\* C1: without Force a frame-sized input returns ErrAlreadyProcessed with no
\* image and no stage (geometry, effect, compositing) ever runs; with Force,
\* Process never returns ErrAlreadyProcessed and ends with a composited
\* frame-sized result, whatever the input size and the effect toggles.
C1_AlreadyProcessedGuard ==
    /\ (~opts.Force /\ albumArt.w = FrameW /\ albumArt.h = FrameH) =>
          /\ ran = <<>>
          /\ result = NoImage
          /\ pc \in {"guard", "done"}
          /\ (pc = "done" => err = "ErrAlreadyProcessed")
    /\ opts.Force =>
          /\ err # "ErrAlreadyProcessed"
          /\ (pc = "done" =>
                /\ err = "nil"
                /\ result = FrameSize
                /\ Len(ran) >= 2
                /\ ran[1] = "scaleAndCrop"
                /\ ran[Len(ran)] = "composite")

\* C1 witness: a forced call on a frame-sized input has returned its result
C1_Witness ==
    /\ pc = "done"
    /\ opts.Force
    /\ albumArt = FrameSize
    /\ err = "nil"
    /\ result = FrameSize

\* C6: the Geometry Stage output is 750x750 and fully covered by source
\* pixels (crop origin non-negative, crop rectangle inside the scaled
\* image), every effect stage keeps 750x750, and a successful Process
\* returns a canvas of the frame's size.
C6_DimensionInvariant ==
    /\ (pc \notin {"guard", "scaleAndCrop"} /\ err # "ErrAlreadyProcessed") =>
          /\ output.w = targetWidth
          /\ output.h = targetHeight
          /\ crop.x >= 0
          /\ crop.y >= 0
          /\ crop.x + targetWidth <= scaled.w
          /\ crop.y + targetHeight <= scaled.h
          /\ output.covered
    /\ (pc = "done" /\ err = "nil") => result = FrameSize

\* C8 as claimed: with RandomOffset the X perturbation is in [-8, +8) and
\* the Y perturbation in [-5, +5): final X in 90..105, final Y in 8..17;
\* without it the art is placed at (98, 13).
C8_HalfOpenOffset ==
    (pc = "done" /\ err = "nil") =>
        IF opts.RandomOffset
        THEN finalPos.x \in 90 .. 105 /\ finalPos.y \in 8 .. 17
        ELSE finalPos = [x |-> 98, y |-> 13]

\* C8 amended: with RandomOffset the X perturbation is in [-8, +8] and the
\* Y perturbation in [-5, +5], both ends included: final X in 90..106,
\* final Y in 8..18; without it the art is placed at exactly (98, 13).
C8_InclusiveOffset ==
    (pc = "done" /\ err = "nil") =>
        IF opts.RandomOffset
        THEN finalPos.x \in 90 .. 106 /\ finalPos.y \in 8 .. 18
        ELSE finalPos = [x |-> 98, y |-> 13]

\* C8 witness: a call with RandomOffset placed the art at the far corner
\* of the inclusive range
C8_Witness ==
    /\ pc = "done"
    /\ err = "nil"
    /\ opts.RandomOffset
    /\ finalPos = [x |-> 106, y |-> 18]

(***************************************************************************)
(* Process on one pixel of the 750x750 buffer (specification SpecPixel).   *)
(* Pixels are image.RGBA samples: 8-bit channels, alpha-premultiplied.     *)
(***************************************************************************)
Px(r, g, b, a) == [r |-> r, g |-> g, b |-> b, a |-> a]
NoPixel == Px(0 - 1, 0 - 1, 0 - 1, 0 - 1)
Transparent == Px(0, 0, 0, 0)
White == Px(255, 255, 255, 255)

Min2(a, b) == IF a <= b THEN a ELSE b

\* The pixel scaleAndCrop hands on: opaque, partly transparent (a PNG with
\* an alpha channel) or fully transparent (also the columns and rows the
\* crop leaves uncovered).  2565*c + 95*(r+g+b) + 19200 is no multiple of
\* 3000 for any channel c of a sample, see applyColourCorrection.
PixelSamples ==
    {White, Px(0, 0, 0, 255), Px(200, 100, 50, 255), Px(250, 250, 250, 255),
     Px(40, 30, 20, 100), Px(20, 10, 5, 50), Transparent}

\* Coordinates of the pixel: the border ring, the ring inside it, the
\* first unchanged ring, inside the corner squares, the middle.  No sum
\* x + y is one of 125, 250, 500, 625, 875, 1000, 1250, 1375, see
\* applyReflection.
CoordSamples == {0, 1, 2, 5, 8, 374, 748, 749}

\* Values of the (opaque, JPEG-decoded) frame under the pixel, as grey levels
FrameSamples == {Px(0, 0, 0, 255), Px(100, 100, 100, 255), Px(250, 250, 250, 255)}

EffectSet ==
    [ColourCorrection : BOOLEAN, RoundedCorners : BOOLEAN, EdgeSoftening : BOOLEAN,
     RandomOffset : BOOLEAN, RandomRotation : BOOLEAN, Reflection : BOOLEAN,
     Force : {FALSE}]

\* Corner radii 6 + rand.Float64()*6 are drawn from 6 + 6*k/RDen, k < RDen
RDen == 3
\* Bilinear weights of applyRotation are drawn from k / 2^WeightBits
WeightBits == 2
WDen == Pow2(WeightBits)

\* color.NRGBA.RGBA() followed by color.RGBAModel (image.RGBA.Set of a
\* color.NRGBA): premultiplies the colour by the alpha
NRGBAToRGBA(c) ==
    [r |-> ((c.r * 257 * c.a) \div 255) \div 256,
     g |-> ((c.g * 257 * c.a) \div 255) \div 256,
     b |-> ((c.b * 257 * c.a) \div 255) \div 256,
     a |-> c.a]

\* distFromLeft, distFromRight, distFromTop, distFromBottom
distFromLeft(p) == p.x
distFromRight(p) == targetWidth - p.x - 1
distFromTop(p) == p.y
distFromBottom(p) == targetHeight - p.y - 1
minDist(p) ==
    Min2(Min2(distFromLeft(p), distFromRight(p)), Min2(distFromTop(p), distFromBottom(p)))

\* applyColourCorrection, one pixel.  In exact arithmetic
\*   fr = (0.9*r + 0.1*(r+g+b)/3)*0.95 + 6.4 = (2565*r + 95*(r+g+b) + 19200)/3000
\* and fb is that times 1.02; uint8() truncates.  float64 agrees with the
\* exact value wherever the exact value is no integer.
CorrectedChannel(c, sum) == Min2(255, (2565 * c + 95 * sum + 19200) \div 3000)
CorrectedBlue(c, sum) == Min2(255, (51 * (2565 * c + 95 * sum + 19200)) \div 150000)
applyColourCorrection(p) ==
    LET sum == p.r + p.g + p.b
    IN [r |-> CorrectedChannel(p.r, sum),
        g |-> CorrectedChannel(p.g, sum),
        b |-> CorrectedBlue(p.b, sum),
        a |-> p.a]

\* applyEdgeSoftening, one pixel: newAlpha = uint8(255.0 * minDist / 2.0),
\* the premultiplied channels r>>8 stored as a color.NRGBA
newAlpha(at) == (255 * minDist(at)) \div 2
applyEdgeSoftening(p, at) ==
    IF minDist(at) < 2
    THEN NRGBAToRGBA(Px(p.r, p.g, p.b, newAlpha(at)))
    ELSE p

\* shouldRound for the radius 6 + 6*k/RDen, all lengths times RDen
shouldRound(dist1, dist2, k) ==
    LET radius == 6 * RDen + 6 * k
        d1 == dist1 * RDen
        d2 == dist2 * RDen
    IN IF d1 >= radius \/ d2 >= radius
       THEN FALSE
       ELSE (radius - d1) * (radius - d1) + (radius - d2) * (radius - d2)
               > radius * radius

\* applyRoundedCorners, one pixel; radii = <<topLeft, topRight, bottomLeft, bottomRight>>
applyRoundedCorners(p, at, radii) ==
    IF \/ shouldRound(distFromLeft(at), distFromTop(at), radii[1])
       \/ shouldRound(distFromRight(at), distFromTop(at), radii[2])
       \/ shouldRound(distFromLeft(at), distFromBottom(at), radii[3])
       \/ shouldRound(distFromRight(at), distFromBottom(at), radii[4])
    THEN NRGBAToRGBA(Transparent)
    ELSE p

\* applyReflection, one pixel.  reflectionIntensity*40 is 12 - (x+y)/125 in
\* exact arithmetic, always positive; float64 agrees after truncation except
\* where x + y is one of 125, 250, 500, 625, 875, 1000, 1250, 1375.
ReflectionGain(at) == (1500 - (at.x + at.y)) \div 125
applyReflection(p, at) ==
    [r |-> Min2(255, p.r + ReflectionGain(at)),
     g |-> Min2(255, p.g + ReflectionGain(at)),
     b |-> Min2(255, p.b + ReflectionGain(at)),
     a |-> p.a]

\* applyRotation's bilinear sample of four taps of the downscaled buffer,
\* with the fractions wx/WDen and wy/WDen (dyadic, so float64 is exact)
BilinearChannel(c00, c10, c01, c11, wx, wy) ==
    (c00 * (WDen - wx) * (WDen - wy) + c10 * wx * (WDen - wy)
       + c01 * (WDen - wx) * wy + c11 * wx * wy) \div (WDen * WDen)
Bilinear(c00, c10, c01, c11, wx, wy) ==
    [r |-> BilinearChannel(c00.r, c10.r, c01.r, c11.r, wx, wy),
     g |-> BilinearChannel(c00.g, c10.g, c01.g, c11.g, wx, wy),
     b |-> BilinearChannel(c00.b, c10.b, c01.b, c11.b, wx, wy),
     a |-> BilinearChannel(c00.a, c10.a, c01.a, c11.a, wx, wy)]

\* draw.Draw(..., draw.Over) of an image.RGBA onto an image.RGBA, one
\* channel: uint8((d*a/m + s*0x101) >> 8) with m = 0xffff and
\* a = (m - sa*0x101)*0x101; d*a/m is d*(m - sa*0x101)/255 exactly
OverChannel(d, s, sa) ==
    ((((d * (65535 - sa * 257)) \div 255) + s * 257) \div 256) % 256
drawOver(d, s) ==
    [r |-> OverChannel(d.r, s.r, s.a),
     g |-> OverChannel(d.g, s.g, s.a),
     b |-> OverChannel(d.b, s.b, s.a),
     a |-> OverChannel(d.a, s.a, s.a)]

PixOnly == UNCHANGED <<procVars, fileVars, concVars>>

InitPixel ==
    /\ ppc = "applyColourCorrection"
    /\ popts \in EffectSet
    /\ pos \in [x : CoordSamples, y : CoordSamples]
    /\ px \in PixelSamples
    /\ edgeIn = NoPixel
    /\ edgeOut = NoPixel
    /\ framePx \in FrameSamples
    /\ canvasPx = NoPixel

\* lines 85-87
PixColourCorrection ==
    /\ ppc = "applyColourCorrection"
    /\ px' = IF popts.ColourCorrection THEN applyColourCorrection(px) ELSE px
    /\ ppc' = "applyEdgeSoftening"
    /\ UNCHANGED <<popts, pos, edgeIn, edgeOut, framePx, canvasPx>>
    /\ PixOnly

\* lines 88-90
PixEdgeSoftening ==
    /\ ppc = "applyEdgeSoftening"
    /\ IF popts.EdgeSoftening
       THEN /\ px' = applyEdgeSoftening(px, pos)
            /\ edgeIn' = px
            /\ edgeOut' = px'
       ELSE UNCHANGED <<px, edgeIn, edgeOut>>
    /\ ppc' = "applyRoundedCorners"
    /\ UNCHANGED <<popts, pos, framePx, canvasPx>>
    /\ PixOnly

\* lines 91-93; the four radii are drawn inside applyRoundedCorners
CornerRadii == [1 .. 4 -> 0 .. (RDen - 1)]
PixRoundedCorners ==
    /\ ppc = "applyRoundedCorners"
    /\ px' \in IF popts.RoundedCorners
              THEN {applyRoundedCorners(px, pos, radii) : radii \in CornerRadii}
              ELSE {px}
    /\ ppc' = "applyReflection"
    /\ UNCHANGED <<popts, pos, edgeIn, edgeOut, framePx, canvasPx>>
    /\ PixOnly

\* lines 94-96
PixReflection ==
    /\ ppc = "applyReflection"
    /\ px' = IF popts.Reflection THEN applyReflection(px, pos) ELSE px
    /\ ppc' = "applyRotation"
    /\ UNCHANGED <<popts, pos, edgeIn, edgeOut, framePx, canvasPx>>
    /\ PixOnly

\* lines 97-99, 190-241.  The destination pixel is left zero when the
\* inverse-mapped coordinate misses [1, scaledSize-1), which always happens
\* on the border ring and can happen up to RotationMargin pixels inside;
\* otherwise it is the bilinear sample of the pixel and of three
\* neighbouring taps.
RotationMargin == 8
PixRotation ==
    /\ ppc = "applyRotation"
    /\ IF popts.RandomRotation
       THEN \/ /\ minDist(pos) < RotationMargin
               /\ px' = Transparent
            \/ /\ minDist(pos) >= 1
               /\ \E nb \in {px, Transparent, White}, wx \in 0 .. (WDen - 1),
                     wy \in 0 .. (WDen - 1) :
                     px' = Bilinear(px, nb, nb, nb, wx, wy)
       ELSE px' = px
    /\ ppc' = "composite"
    /\ UNCHANGED <<popts, pos, edgeIn, edgeOut, framePx, canvasPx>>
    /\ PixOnly

\* lines 101-111: the canvas starts as a copy of the frame, then the
\* buffer is drawn over it
PixComposite ==
    /\ ppc = "composite"
    /\ canvasPx' = drawOver(framePx, px)
    /\ ppc' = "done"
    /\ UNCHANGED <<popts, pos, px, edgeIn, edgeOut, framePx>>
    /\ PixOnly

NextPixel ==
    \/ PixColourCorrection
    \/ PixEdgeSoftening
    \/ PixRoundedCorners
    \/ PixReflection
    \/ PixRotation
    \/ PixComposite

(***************************************************************************)
(* Claims about pixels (specification SpecPixel)                           *)
(***************************************************************************)
\* C9: after Edge Softening, a pixel on the border ring (d = 0) has alpha 0,
\* a pixel one step inside (d = 1) has the input pixel's alpha scaled by
\* 1/2, never more than the input alpha, and a pixel with d >= 2 is
\* byte-identical to the input pixel; also for non-opaque input pixels.
C9_EdgeSoftening ==
    edgeOut # NoPixel =>
        /\ minDist(pos) = 0 => edgeOut.a = 0
        /\ minDist(pos) = 1 =>
              /\ edgeOut.a \in {edgeIn.a \div 2, (edgeIn.a + 1) \div 2}
              /\ edgeOut.a <= edgeIn.a
        /\ minDist(pos) >= 2 => edgeOut = edgeIn

\* C10: a pixel of the processed buffer that reaches the Compositor with
\* alpha 0 has colour channels 0, and the result's pixel at its place
\* equals the frame's pixel there.
C10_TransparentKeepsFrame ==
    (ppc = "done" /\ px.a = 0) =>
        /\ px.r = 0 /\ px.g = 0 /\ px.b = 0
        /\ canvasPx = framePx

(***************************************************************************)
(* ProcessFile, loadImage, saveImage and processDirectory (specification   *)
(* SpecFile; SpecWalk adds the fairness of the walk's loop).               *)
(***************************************************************************)
\* Program runs (command lines) in one behaviour
MaxRuns == 2

\* The tree the recursive mode walks, in filepath.Walk's lexical order
Tree ==
    << [path |-> "lib", isDir |-> TRUE],
       [path |-> "lib/a.jpg", isDir |-> FALSE],
       [path |-> "lib/b.PNG", isDir |-> FALSE],
       [path |-> "lib/c.bmp", isDir |-> FALSE] >>

TreeFiles == {Tree[i].path : i \in {j \in 1 .. Len(Tree) : ~Tree[j].isDir}}
\* Paths a two-argument command line writes to, absent at the start
OutPaths == {"o.png", "o.bmp"}
Paths == TreeFiles \cup OutPaths

\* filepath.Ext(path)
Ext(path) ==
    CASE path = "lib/a.jpg" -> ".jpg"
      [] path = "lib/b.PNG" -> ".PNG"
      [] path = "lib/c.bmp" -> ".bmp"
      [] path = "o.png" -> ".png"
      [] path = "o.bmp" -> ".bmp"
      [] OTHER -> ""

\* strings.ToLower on the extensions above
ToLower(e) ==
    CASE e = ".PNG" -> ".png"
      [] e = ".JPG" -> ".jpg"
      [] e = ".JPEG" -> ".jpeg"
      [] OTHER -> e

\* switch ext: the decoder / encoder the extension selects ("": default)
CodecOf(path) ==
    LET ext == ToLower(Ext(path))
    IN CASE ext \in {".jpg", ".jpeg"} -> "jpeg"
         [] ext = ".png" -> "png"
         [] OTHER -> ""

\* processDirectory, lines 85-86
WalkAccepts(path) ==
    LET ext == ToLower(Ext(path))
    IN ext = ".jpg" \/ ext = ".jpeg" \/ ext = ".png"

\* File contents.  layers counts the frames composited into an image.
Content(kind, fmt, w, h, layers) ==
    [kind |-> kind, fmt |-> fmt, w |-> w, h |-> h, layers |-> layers]
Absent == Content("absent", "", 0, 0, 0)
Empty == Content("empty", "", 0, 0, 0)
Partial == Content("partial", "", 0, 0, 0)
Garbage == Content("garbage", "", 0, 0, 0)
Image(fmt, w, h, layers) == Content("image", fmt, w, h, layers)

\* What a tree file holds at the start: album art, an image of the frame's
\* size, or bytes its decoder rejects
StartContents(path) ==
    IF CodecOf(path) = ""
    THEN {Garbage}
    ELSE {Image(CodecOf(path), 1000, 500, 0), Image(CodecOf(path), FrameW, FrameH, 0), Garbage}

\* Process as ProcessFile sees it: lines 73-112 on the decoded image
ProcessOutcome(img, force) ==
    IF GuardApplies([Force |-> force]) /\ SameSizeAsFrame(img)
    THEN [err |-> "ErrAlreadyProcessed", w |-> 0, h |-> 0, layers |-> 0]
    ELSE [err |-> "nil", w |-> resultBounds.w, h |-> resultBounds.h,
          layers |-> img.layers + 1]

\* loadImage: os.Open, then the extension switch, then the decoder
loadImage(inputPath, fs) ==
    IF fs[inputPath].kind = "absent"
    THEN [err |-> "open", events |-> <<>>]
    ELSE IF CodecOf(inputPath) = ""
    THEN [err |-> "unsupported", events |-> <<"open">>]
    ELSE IF fs[inputPath].kind = "image" /\ fs[inputPath].fmt = CodecOf(inputPath)
    THEN [err |-> "nil", events |-> <<"open", "decode">>]
    ELSE [err |-> "decode", events |-> <<"open", "decode">>]

\* saveImage: os.Create (which truncates), then the extension switch, then
\* the encoder; createFails and encodeFails are the I/O errors of the run
saveImage(img, outputPath, fs, createFails, encodeFails) ==
    IF createFails
    THEN [err |-> "create", events |-> <<>>, files |-> fs]
    ELSE IF CodecOf(outputPath) = ""
    THEN [err |-> "unsupported", events |-> <<"create">>,
          files |-> [fs EXCEPT ![outputPath] = Empty]]
    ELSE IF encodeFails
    THEN [err |-> "encode", events |-> <<"create", "encode">>,
          files |-> [fs EXCEPT ![outputPath] = Partial]]
    ELSE [err |-> "nil", events |-> <<"create", "encode">>,
          files |-> [fs EXCEPT ![outputPath] =
                        Image(CodecOf(outputPath), img.w, img.h, img.layers)]]

\* ProcessFile: lines 156-168
ProcessFile(inputPath, outputPath, force, fs, createFails, encodeFails) ==
    LET loaded == loadImage(inputPath, fs)
        processed == ProcessOutcome(fs[inputPath], force)
        saved == saveImage(processed, outputPath, fs, createFails, encodeFails)
    IN IF loaded.err # "nil"
       THEN [err |-> loaded.err, events |-> loaded.events, files |-> fs]
       ELSE IF processed.err # "nil"
       THEN [err |-> processed.err, events |-> Append(loaded.events, "Process"),
             files |-> fs]
       ELSE [err |-> saved.err,
             events |-> Append(loaded.events, "Process") \o saved.events,
             files |-> saved.files]

NoCall ==
    [called |-> FALSE, in |-> "", out |-> "", force |-> FALSE, err |-> "",
     events |-> <<>>, before |-> Absent, wasFramed |-> FALSE]

\* The record of a ProcessFile call and the bookkeeping of the claims
Called(inputPath, outputPath, force, outcome) ==
    [called |-> TRUE, in |-> inputPath, out |-> outputPath, force |-> force,
     err |-> outcome.err, events |-> outcome.events, before |-> files[outputPath],
     wasFramed |-> inputPath \in framedOnce /\ inputPath \notin tainted]

Bookkeeping(inputPath, outputPath, force, outcome) ==
    /\ lastCall' = Called(inputPath, outputPath, force, outcome)
    /\ framedOnce' = IF inputPath = outputPath /\ ~force /\ outcome.err = "nil"
                     THEN framedOnce \cup {inputPath}
                     ELSE framedOnce
    /\ tainted' = IF force \/ inputPath # outputPath
                  THEN tainted \cup {outputPath}
                  ELSE tainted

FileOnly == UNCHANGED <<procVars, pixVars, concVars>>

InitFile ==
    /\ files \in {f \in [Paths -> UNION {StartContents(q) : q \in TreeFiles} \cup {Absent}] :
                    \A q \in Paths :
                        IF q \in TreeFiles THEN f[q] \in StartContents(q) ELSE f[q] = Absent}
    /\ wpc = "idle"
    /\ idx = 0
    /\ wforce = FALSE
    /\ reports = <<>>
    /\ calls = [q \in Paths |-> 0]
    /\ runs = 0
    /\ lastCall = NoCall
    /\ framedOnce = {}
    /\ tainted = {}

NoWalkRunning == wpc \in {"idle", "finished", "aborted"}

\* main, lines 45-63: --inplace <image> or <input-image> <output-image>
SingleFile ==
    /\ NoWalkRunning
    /\ runs < MaxRuns
    /\ \E inputPath \in Paths, outputPath \in Paths, force \in BOOLEAN,
          createFails \in BOOLEAN, encodeFails \in BOOLEAN :
          LET outcome == ProcessFile(inputPath, outputPath, force, files,
                                     createFails, encodeFails)
          IN /\ files' = outcome.files
             /\ Bookkeeping(inputPath, outputPath, force, outcome)
    /\ runs' = runs + 1
    /\ wpc' = "idle"
    /\ idx' = 0
    /\ reports' = <<>>
    /\ calls' = [q \in Paths |-> 0]
    /\ UNCHANGED wforce
    /\ FileOnly

\* main, lines 40-44: --recursive <directory>
StartWalk ==
    /\ NoWalkRunning
    /\ runs < MaxRuns
    /\ runs' = runs + 1
    /\ wpc' = "walking"
    /\ idx' = 1
    /\ wforce' \in BOOLEAN
    /\ reports' = <<>>
    /\ calls' = [q \in Paths |-> 0]
    /\ UNCHANGED <<files, lastCall, framedOnce, tainted>>
    /\ FileOnly

Visiting == wpc = "walking" /\ idx <= Len(Tree)

\* lines 77-79: filepath.Walk hands the callback an error (the entry could
\* not be stat'ed, the directory not read); the callback returns it, Walk
\* stops, lines 102-105 exit
VisitWalkError ==
    /\ Visiting
    /\ wpc' = "aborted"
    /\ UNCHANGED <<files, idx, wforce, reports, calls, runs, lastCall, framedOnce, tainted>>
    /\ FileOnly

\* lines 81-83
VisitDirectory ==
    /\ Visiting
    /\ Tree[idx].isDir
    /\ idx' = idx + 1
    /\ UNCHANGED <<files, wpc, wforce, reports, calls, runs, lastCall, framedOnce, tainted>>
    /\ FileOnly

ReportKind(e) ==
    IF e = "nil" THEN "Processed"
    ELSE IF e = "ErrAlreadyProcessed" THEN "Skipped"
    ELSE "Error"

\* the callback's value after ProcessFile returned e: always nil (line 99)
AbortsOnError(e) == IF e \in {"nil", "ErrAlreadyProcessed"} THEN "walking" ELSE "aborted"
AfterProcessFile(e) == "walking"

\* lines 85-97
VisitImage ==
    /\ Visiting
    /\ ~Tree[idx].isDir
    /\ WalkAccepts(Tree[idx].path)
    /\ \E createFails \in BOOLEAN, encodeFails \in BOOLEAN :
          LET path == Tree[idx].path
              outcome == ProcessFile(path, path, wforce, files, createFails, encodeFails)
          IN /\ files' = outcome.files
             /\ Bookkeeping(path, path, wforce, outcome)
             /\ reports' = Append(reports, [path |-> path, kind |-> ReportKind(outcome.err)])
             /\ calls' = [calls EXCEPT ![path] = @ + 1]
             /\ wpc' = AfterProcessFile(outcome.err)
    /\ idx' = idx + 1
    /\ UNCHANGED <<wforce, runs>>
    /\ FileOnly

\* line 86 false: the file is passed over
VisitOther ==
    /\ Visiting
    /\ ~Tree[idx].isDir
    /\ ~WalkAccepts(Tree[idx].path)
    /\ idx' = idx + 1
    /\ UNCHANGED <<files, wpc, wforce, reports, calls, runs, lastCall, framedOnce, tainted>>
    /\ FileOnly

\* filepath.Walk returns nil
WalkDone ==
    /\ wpc = "walking"
    /\ idx > Len(Tree)
    /\ wpc' = "finished"
    /\ UNCHANGED <<files, idx, wforce, reports, calls, runs, lastCall, framedOnce, tainted>>
    /\ FileOnly

WalkStep ==
    \/ VisitWalkError
    \/ VisitDirectory
    \/ VisitImage
    \/ VisitOther
    \/ WalkDone

NextFile ==
    \/ SingleFile
    \/ StartWalk
    \/ VisitWalkError
    \/ VisitDirectory
    \/ VisitImage
    \/ VisitOther
    \/ WalkDone

(***************************************************************************)
(* Claims about files (specifications SpecFile and SpecWalk)               *)
(***************************************************************************)
Supported(q) == ToLower(Ext(q)) \in {".jpg", ".jpeg", ".png"}
ReportsOf(q) == {i \in 1 .. Len(reports) : reports[i].path = q}

\* C2: once a non-forced in-place ProcessFile has succeeded on a path, every
\* later non-forced in-place ProcessFile on it returns ErrAlreadyProcessed
\* and leaves the file as it was; a file touched only by non-forced in-place
\* runs holds at most one frame.
C2_FramedAtMostOnce ==
    /\ (lastCall.called /\ lastCall.in = lastCall.out /\ ~lastCall.force
          /\ lastCall.wasFramed) =>
          /\ lastCall.err = "ErrAlreadyProcessed"
          /\ files[lastCall.out] = lastCall.before
    /\ \A q \in Paths \ tainted : files[q].layers <= 1

\* C2 witness: a second non-forced in-place run on a framed file was skipped
C2_Witness ==
    /\ lastCall.called
    /\ lastCall.in = lastCall.out
    /\ ~lastCall.force
    /\ lastCall.wasFramed
    /\ lastCall.err = "ErrAlreadyProcessed"
    /\ files[lastCall.in].kind = "image"
    /\ files[lastCall.in].layers = 1

\* C3: ProcessFile either returns nil with the complete framed image written
\* to the output path, or returns an error with the output path untouched
\* (not created, not truncated, not partially written).
C3_AllOrNothing ==
    lastCall.called =>
        IF lastCall.err = "nil"
        THEN /\ files[lastCall.out].kind = "image"
             /\ files[lastCall.out].w = 884
             /\ files[lastCall.out].h = 777
        ELSE files[lastCall.out] = lastCall.before

\* C4: when the input or the output extension is outside {.jpg, .jpeg,
\* .png}, ProcessFile fails with the unsupported-format error before the
\* image is decoded and before Process runs (stated for the calls whose
\* input file could be opened).
C4_UnsupportedFailsFast ==
    (/\ lastCall.called
     /\ Len(lastCall.events) > 0
     /\ (~Supported(lastCall.in) \/ ~Supported(lastCall.out))) =>
        /\ lastCall.err = "unsupported"
        /\ \A i \in 1 .. Len(lastCall.events) :
              lastCall.events[i] \notin {"decode", "Process"}

NumCalls == 2
\* Pixels of the frame
FrameCells == 2

Callers == 1 .. NumCalls
Cells == 1 .. FrameCells
\* The object the package variable frame refers to
FrameObj == 0
Unallocated == <<>>

ConcArtSamples == {Px(200, 100, 50, 255), Px(40, 30, 20, 100)}
ConcFrameSamples == {Px(0, 0, 0, 255), Px(100, 100, 100, 255)}

\* image.NewRGBA(frame.Bounds()): a fresh object for the call
SharedFrameCanvas(i) == FrameObj
NewRGBA(i) == i

ConcOnly == UNCHANGED <<procVars, pixVars, fileVars>>

\* init(), lines 30-36: the frame is decoded once
InitConc ==
    /\ frameInit \in [Cells -> ConcFrameSamples]
    /\ heap = [o \in {FrameObj} \cup Callers |-> IF o = FrameObj THEN frameInit ELSE Unallocated]
    /\ cpc = [i \in Callers |-> "start"]
    /\ cart = [i \in Callers |-> NoPixel]
    /\ cat = [i \in Callers |-> 0]
    /\ cref = [i \in Callers |-> 0 - 1]

\* lines 83-106: the call computes its own buffer and its offset (the
\* draws come from math/rand's locked global source)
ConcStages(i) ==
    /\ cpc[i] = "start"
    /\ \E p \in ConcArtSamples, c \in Cells :
          /\ cart' = [cart EXCEPT ![i] = p]
          /\ cat' = [cat EXCEPT ![i] = c]
    /\ cpc' = [cpc EXCEPT ![i] = "NewRGBA"]
    /\ UNCHANGED <<heap, frameInit, cref>>
    /\ ConcOnly

\* line 108
ConcNewCanvas(i) ==
    /\ cpc[i] = "NewRGBA"
    /\ cref' = [cref EXCEPT ![i] = NewRGBA(i)]
    /\ heap' = [heap EXCEPT ![cref'[i]] = [c \in Cells |-> Transparent]]
    /\ cpc' = [cpc EXCEPT ![i] = "drawSrc"]
    /\ UNCHANGED <<frameInit, cart, cat>>
    /\ ConcOnly

\* line 109: draw.Draw(result, result.Bounds(), frame, image.Point{}, draw.Src)
ConcCopyFrame(i) ==
    /\ cpc[i] = "drawSrc"
    /\ heap' = [heap EXCEPT ![cref[i]] = heap[FrameObj]]
    /\ cpc' = [cpc EXCEPT ![i] = "drawOver"]
    /\ UNCHANGED <<frameInit, cart, cat, cref>>
    /\ ConcOnly

\* line 110: draw.Draw(result, image.Rect(finalX, ...), output, image.Point{}, draw.Over)
ConcDrawArt(i) ==
    /\ cpc[i] = "drawOver"
    /\ heap' = [heap EXCEPT ![cref[i]][cat[i]] = drawOver(@, cart[i])]
    /\ cpc' = [cpc EXCEPT ![i] = "done"]
    /\ UNCHANGED <<frameInit, cart, cat, cref>>
    /\ ConcOnly

NextConc ==
    \E i \in Callers :
        \/ ConcStages(i)
        \/ ConcNewCanvas(i)
        \/ ConcCopyFrame(i)
        \/ ConcDrawArt(i)

\* C7: the frame keeps the pixels it had after init, whatever calls run and
\* however they interleave; every call draws on a canvas of its own (not
\* the frame, not another call's); a finished call's result is the initial
\* frame with its own art drawn over the cell of its own offset, whatever
\* the other calls did.
C7_FrameReadOnly ==
    /\ heap[FrameObj] = frameInit
    /\ \A i \in Callers :
          cpc[i] \in {"drawSrc", "drawOver", "done"} =>
              /\ cref[i] # FrameObj
              /\ \A j \in Callers \ {i} : cref[j] # cref[i]
    /\ \A i \in Callers :
          cpc[i] = "done" =>
              heap[cref[i]] = [c \in Cells |->
                                  IF c = cat[i]
                                  THEN drawOver(frameInit[c], cart[i])
                                  ELSE frameInit[c]]

\* C7 witness: all calls have finished, two of them having drawn different
\* art over the same cell
C7_Witness ==
    /\ \A i \in Callers : cpc[i] = "done"
    /\ cat[1] = cat[2]
    /\ cart[1] # cart[2]
    /\ heap[cref[1]] # heap[cref[2]]
    /\ heap[cref[1]] # frameInit

(***************************************************************************)
(* The specifications                                                      *)
(***************************************************************************)
IdleProcess ==
    /\ pc = "idle"
    /\ albumArt = NoImage
    /\ opts = [Force |-> FALSE]
    /\ scaled = NoImage
    /\ crop = NoPoint
    /\ output = NoBuffer
    /\ finalPos = NoPoint
    /\ result = NoImage
    /\ err = "pending"
    /\ ran = <<>>

IdlePixel ==
    /\ ppc = "idle"
    /\ popts = [Force |-> FALSE]
    /\ pos = NoPoint
    /\ px = NoPixel
    /\ edgeIn = NoPixel
    /\ edgeOut = NoPixel
    /\ framePx = NoPixel
    /\ canvasPx = NoPixel

IdleFile ==
    /\ files = [q \in Paths |-> Absent]
    /\ wpc = "idle"
    /\ idx = 0
    /\ wforce = FALSE
    /\ reports = <<>>
    /\ calls = [q \in Paths |-> 0]
    /\ runs = 0
    /\ lastCall = NoCall
    /\ framedOnce = {}
    /\ tainted = {}

IdleConc ==
    /\ heap = [o \in {FrameObj} |-> Unallocated]
    /\ frameInit = Unallocated
    /\ cpc = [i \in Callers |-> "idle"]
    /\ cart = [i \in Callers |-> NoPixel]
    /\ cat = [i \in Callers |-> 0]
    /\ cref = [i \in Callers |-> 0 - 1]

Init == InitProcess /\ IdlePixel /\ IdleFile /\ IdleConc
Next == NextProcess
Spec == Init /\ [][Next]_vars

InitPix == InitPixel /\ IdleProcess /\ IdleFile /\ IdleConc
SpecPixel == InitPix /\ [][NextPixel]_vars

InitFiles == InitFile /\ IdleProcess /\ IdlePixel /\ IdleConc
SpecFile == InitFiles /\ [][NextFile]_vars
SpecWalk == SpecFile /\ WF_vars(WalkStep)

InitCalls == InitConc /\ IdleProcess /\ IdlePixel /\ IdleFile
SpecConc == InitCalls /\ [][NextConc]_vars

====
